---- MODULE Spec2Model ----
(***************************************************************************)
(* Model of the inbound-voting HTTP API: the relational store (companies,  *)
(* votes, votes_new, votes_old), the startup initialisation initDB, the    *)
(* vote-submission handler in its two variants (the pre-check variant of   *)
(* src/server.js and the constraint-based variant of src/unnamed/part_000),*)
(* the company administration handlers and the leaderboard query.          *)
(*                                                                         *)
(* A JavaScript string is the sequence of its UTF-16 code units, so that   *)
(* toLowerCase, trim and the e-mail regular expression are computed.       *)
(* Every pool.query is one atomic step of the store (single-statement      *)
(* atomicity); a handler that awaits several queries is several actions,   *)
(* and what the handler does once its INSERT has returned is an action of  *)
(* its own.  An exception thrown outside a try block of an async handler   *)
(* is an unhandled rejection: the process goes on or exits, by its Node    *)
(* version and flags.                                                      *)
(* The HTTP response of a handler is an output, not state: it is the value *)
(* of the handler's ...Outcome operator in the state the step is taken in. *)
(***************************************************************************)
EXTENDS Integers, Sequences, FiniteSets, TLC

VARIABLES
    variant,     \* which source file is running: "server" or "simple"
    boots,       \* how many times startServer/initDB has run
    companies,   \* table companies
    votes,       \* table votes (the canonical name the handlers query)
    votes_new,   \* table votes_new
    votes_old,   \* table votes_old
    req,         \* per connection: the vote handler's position and its req.body
    fetches,     \* the webhook requests of sendToGoogleSheets not yet settled
    running      \* the Node process is up and listening

vars ==
    <<variant, boots, companies, votes, votes_new, votes_old, req, fetches, running>>

(***************************************************************************)
(* Bounds of the exploration.                                              *)
(***************************************************************************)
MaxRestarts == 1
MaxCompanyId == 5
Slots == {1, 2}

(***************************************************************************)
(* JavaScript strings.                                                     *)
(***************************************************************************)
\* A string is the sequence of its UTF-16 code units, each unit the number
\* of its code: <<65, 110, 97>> is "Ana".
HighSurrogate(u) == u \in 55296..56319
LowSurrogate(u) == u \in 56320..57343

\* f[lo] \o ... \o f[hi], for a function f of sequences
RECURSIVE ConcatRange(_, _, _)
ConcatRange(f, lo, hi) ==
    IF lo > hi THEN <<>>
    ELSE IF lo = hi THEN f[lo]
    ELSE ConcatRange(f, lo, (lo + hi) \div 2)
             \o ConcatRange(f, ((lo + hi) \div 2) + 1, hi)

\* the code points of a string: a high surrogate followed by a low one is
\* one code point, any other unit stands for itself
CodePoints(s) ==
    ConcatRange(
        [i \in 1..Len(s) |->
            IF LowSurrogate(s[i]) /\ i > 1 /\ HighSurrogate(s[i - 1]) THEN <<>>
            ELSE IF HighSurrogate(s[i]) /\ i < Len(s) /\ LowSurrogate(s[i + 1])
            THEN <<65536 + (s[i] - 55296) * 1024 + (s[i + 1] - 56320)>>
            ELSE <<s[i]>>],
        1, Len(s))

\* the code units of a sequence of code points
CodeUnits(p) ==
    ConcatRange(
        [i \in 1..Len(p) |->
            IF p[i] >= 65536
            THEN <<55296 + ((p[i] - 65536) \div 1024), 56320 + ((p[i] - 65536) % 1024)>>
            ELSE <<p[i]>>],
        1, Len(p))

InRanges(c, table) ==
    \E i \in 1..Len(table) : table[i][1] <= c /\ c <= table[i][2]

\* The code points above ASCII with a lower case of their own, as runs
\* <<first, last, step, d>>: every step-th code point from first to last has
\* the lower case d further on (Unicode 15.0 with the letters added in 16.0
\* and 17.0).
LowerRanges == <<
    <<192, 214, 1, 32>>, <<216, 222, 1, 32>>, <<256, 302, 2, 1>>,
    <<304, 304, 1, -199>>, <<306, 310, 2, 1>>, <<313, 327, 2, 1>>,
    <<330, 374, 2, 1>>, <<376, 376, 1, -121>>, <<377, 381, 2, 1>>,
    <<385, 385, 1, 210>>, <<386, 388, 2, 1>>, <<390, 390, 1, 206>>,
    <<391, 391, 1, 1>>, <<393, 394, 1, 205>>, <<395, 395, 1, 1>>,
    <<398, 398, 1, 79>>, <<399, 399, 1, 202>>, <<400, 400, 1, 203>>,
    <<401, 401, 1, 1>>, <<403, 403, 1, 205>>, <<404, 404, 1, 207>>,
    <<406, 406, 1, 211>>, <<407, 407, 1, 209>>, <<408, 408, 1, 1>>,
    <<412, 412, 1, 211>>, <<413, 413, 1, 213>>, <<415, 415, 1, 214>>,
    <<416, 420, 2, 1>>, <<422, 422, 1, 218>>, <<423, 423, 1, 1>>,
    <<425, 425, 1, 218>>, <<428, 428, 1, 1>>, <<430, 430, 1, 218>>,
    <<431, 431, 1, 1>>, <<433, 434, 1, 217>>, <<435, 437, 2, 1>>,
    <<439, 439, 1, 219>>, <<440, 440, 1, 1>>, <<444, 444, 1, 1>>,
    <<452, 452, 1, 2>>, <<453, 453, 1, 1>>, <<455, 455, 1, 2>>,
    <<456, 456, 1, 1>>, <<458, 458, 1, 2>>, <<459, 475, 2, 1>>,
    <<478, 494, 2, 1>>, <<497, 497, 1, 2>>, <<498, 500, 2, 1>>,
    <<502, 502, 1, -97>>, <<503, 503, 1, -56>>, <<504, 542, 2, 1>>,
    <<544, 544, 1, -130>>, <<546, 562, 2, 1>>, <<570, 570, 1, 10795>>,
    <<571, 571, 1, 1>>, <<573, 573, 1, -163>>, <<574, 574, 1, 10792>>,
    <<577, 577, 1, 1>>, <<579, 579, 1, -195>>, <<580, 580, 1, 69>>,
    <<581, 581, 1, 71>>, <<582, 590, 2, 1>>, <<880, 882, 2, 1>>,
    <<886, 886, 1, 1>>, <<895, 895, 1, 116>>, <<902, 902, 1, 38>>,
    <<904, 906, 1, 37>>, <<908, 908, 1, 64>>, <<910, 911, 1, 63>>,
    <<913, 929, 1, 32>>, <<931, 939, 1, 32>>, <<975, 975, 1, 8>>,
    <<984, 1006, 2, 1>>, <<1012, 1012, 1, -60>>, <<1015, 1015, 1, 1>>,
    <<1017, 1017, 1, -7>>, <<1018, 1018, 1, 1>>, <<1021, 1023, 1, -130>>,
    <<1024, 1039, 1, 80>>, <<1040, 1071, 1, 32>>, <<1120, 1152, 2, 1>>,
    <<1162, 1214, 2, 1>>, <<1216, 1216, 1, 15>>, <<1217, 1229, 2, 1>>,
    <<1232, 1326, 2, 1>>, <<1329, 1366, 1, 48>>, <<4256, 4293, 1, 7264>>,
    <<4295, 4295, 1, 7264>>, <<4301, 4301, 1, 7264>>,
    <<5024, 5103, 1, 38864>>, <<5104, 5109, 1, 8>>, <<7305, 7305, 1, 1>>,
    <<7312, 7354, 1, -3008>>, <<7357, 7359, 1, -3008>>, <<7680, 7828, 2, 1>>,
    <<7838, 7838, 1, -7615>>, <<7840, 7934, 2, 1>>, <<7944, 7951, 1, -8>>,
    <<7960, 7965, 1, -8>>, <<7976, 7983, 1, -8>>, <<7992, 7999, 1, -8>>,
    <<8008, 8013, 1, -8>>, <<8025, 8031, 2, -8>>, <<8040, 8047, 1, -8>>,
    <<8072, 8079, 1, -8>>, <<8088, 8095, 1, -8>>, <<8104, 8111, 1, -8>>,
    <<8120, 8121, 1, -8>>, <<8122, 8123, 1, -74>>, <<8124, 8124, 1, -9>>,
    <<8136, 8139, 1, -86>>, <<8140, 8140, 1, -9>>, <<8152, 8153, 1, -8>>,
    <<8154, 8155, 1, -100>>, <<8168, 8169, 1, -8>>, <<8170, 8171, 1, -112>>,
    <<8172, 8172, 1, -7>>, <<8184, 8185, 1, -128>>, <<8186, 8187, 1, -126>>,
    <<8188, 8188, 1, -9>>, <<8486, 8486, 1, -7517>>,
    <<8490, 8490, 1, -8383>>, <<8491, 8491, 1, -8262>>,
    <<8498, 8498, 1, 28>>, <<8544, 8559, 1, 16>>, <<8579, 8579, 1, 1>>,
    <<9398, 9423, 1, 26>>, <<11264, 11311, 1, 48>>, <<11360, 11360, 1, 1>>,
    <<11362, 11362, 1, -10743>>, <<11363, 11363, 1, -3814>>,
    <<11364, 11364, 1, -10727>>, <<11367, 11371, 2, 1>>,
    <<11373, 11373, 1, -10780>>, <<11374, 11374, 1, -10749>>,
    <<11375, 11375, 1, -10783>>, <<11376, 11376, 1, -10782>>,
    <<11378, 11378, 1, 1>>, <<11381, 11381, 1, 1>>,
    <<11390, 11391, 1, -10815>>, <<11392, 11490, 2, 1>>,
    <<11499, 11501, 2, 1>>, <<11506, 11506, 1, 1>>, <<42560, 42604, 2, 1>>,
    <<42624, 42650, 2, 1>>, <<42786, 42798, 2, 1>>, <<42802, 42862, 2, 1>>,
    <<42873, 42875, 2, 1>>, <<42877, 42877, 1, -35332>>,
    <<42878, 42886, 2, 1>>, <<42891, 42891, 1, 1>>,
    <<42893, 42893, 1, -42280>>, <<42896, 42898, 2, 1>>,
    <<42902, 42920, 2, 1>>, <<42922, 42922, 1, -42308>>,
    <<42923, 42923, 1, -42319>>, <<42924, 42924, 1, -42315>>,
    <<42925, 42925, 1, -42305>>, <<42926, 42926, 1, -42308>>,
    <<42928, 42928, 1, -42258>>, <<42929, 42929, 1, -42282>>,
    <<42930, 42930, 1, -42261>>, <<42931, 42931, 1, 928>>,
    <<42932, 42946, 2, 1>>, <<42948, 42948, 1, -48>>,
    <<42949, 42949, 1, -42307>>, <<42950, 42950, 1, -35384>>,
    <<42951, 42953, 2, 1>>, <<42955, 42955, 1, -42343>>,
    <<42956, 42970, 2, 1>>, <<42972, 42972, 1, -42561>>,
    <<42997, 42997, 1, 1>>, <<65313, 65338, 1, 32>>, <<66560, 66599, 1, 40>>,
    <<66736, 66771, 1, 40>>, <<66928, 66938, 1, 39>>,
    <<66940, 66954, 1, 39>>, <<66956, 66962, 1, 39>>,
    <<66964, 66965, 1, 39>>, <<68736, 68786, 1, 64>>,
    <<68944, 68965, 1, 32>>, <<71840, 71871, 1, 32>>,
    <<93760, 93791, 1, 32>>, <<93856, 93880, 1, 27>>,
    <<125184, 125217, 1, 34>> >>

\* the lower case of one code point, where it does not depend on the context
toLowerChar(c) ==
    IF c <= 127 THEN IF c \in 65..90 THEN c + 32 ELSE c
    ELSE LET hits == {i \in 1..Len(LowerRanges) :
                        /\ LowerRanges[i][1] <= c /\ c <= LowerRanges[i][2]
                        /\ (c - LowerRanges[i][1]) % LowerRanges[i][3] = 0}
         IN  IF hits = {} THEN c
             ELSE c + LowerRanges[CHOOSE i \in hits : TRUE][4]

\* the cased code points (property Cased), as ranges <<first, last>>
CasedRanges == <<
    <<65, 90>>, <<97, 122>>, <<170, 170>>, <<181, 181>>, <<186, 186>>,
    <<192, 214>>, <<216, 246>>, <<248, 442>>, <<444, 447>>, <<452, 659>>,
    <<662, 696>>, <<704, 705>>, <<736, 740>>, <<837, 837>>, <<880, 883>>,
    <<886, 887>>, <<890, 893>>, <<895, 895>>, <<902, 902>>, <<904, 906>>,
    <<908, 908>>, <<910, 929>>, <<931, 1013>>, <<1015, 1153>>,
    <<1162, 1327>>, <<1329, 1366>>, <<1376, 1416>>, <<4256, 4293>>,
    <<4295, 4295>>, <<4301, 4301>>, <<4304, 4346>>, <<4348, 4351>>,
    <<5024, 5109>>, <<5112, 5117>>, <<7296, 7306>>, <<7312, 7354>>,
    <<7357, 7359>>, <<7424, 7615>>, <<7680, 7957>>, <<7960, 7965>>,
    <<7968, 8005>>, <<8008, 8013>>, <<8016, 8023>>, <<8025, 8025>>,
    <<8027, 8027>>, <<8029, 8029>>, <<8031, 8061>>, <<8064, 8116>>,
    <<8118, 8124>>, <<8126, 8126>>, <<8130, 8132>>, <<8134, 8140>>,
    <<8144, 8147>>, <<8150, 8155>>, <<8160, 8172>>, <<8178, 8180>>,
    <<8182, 8188>>, <<8305, 8305>>, <<8319, 8319>>, <<8336, 8348>>,
    <<8450, 8450>>, <<8455, 8455>>, <<8458, 8467>>, <<8469, 8469>>,
    <<8473, 8477>>, <<8484, 8484>>, <<8486, 8486>>, <<8488, 8488>>,
    <<8490, 8493>>, <<8495, 8500>>, <<8505, 8505>>, <<8508, 8511>>,
    <<8517, 8521>>, <<8526, 8526>>, <<8544, 8575>>, <<8579, 8580>>,
    <<9398, 9449>>, <<11264, 11492>>, <<11499, 11502>>, <<11506, 11507>>,
    <<11520, 11557>>, <<11559, 11559>>, <<11565, 11565>>, <<42560, 42605>>,
    <<42624, 42653>>, <<42786, 42887>>, <<42891, 42894>>, <<42896, 42972>>,
    <<42994, 42998>>, <<43000, 43002>>, <<43824, 43866>>, <<43868, 43881>>,
    <<43888, 43967>>, <<64256, 64262>>, <<64275, 64279>>, <<65313, 65338>>,
    <<65345, 65370>>, <<66560, 66639>>, <<66736, 66771>>, <<66776, 66811>>,
    <<66928, 66938>>, <<66940, 66954>>, <<66956, 66962>>, <<66964, 66965>>,
    <<66967, 66977>>, <<66979, 66993>>, <<66995, 67001>>, <<67003, 67004>>,
    <<67456, 67456>>, <<67459, 67461>>, <<67463, 67504>>, <<67506, 67514>>,
    <<68736, 68786>>, <<68800, 68850>>, <<68944, 68965>>, <<68976, 68997>>,
    <<71840, 71903>>, <<93760, 93823>>, <<93856, 93880>>, <<93883, 93907>>,
    <<119808, 119892>>, <<119894, 119964>>, <<119966, 119967>>,
    <<119970, 119970>>, <<119973, 119974>>, <<119977, 119980>>,
    <<119982, 119993>>, <<119995, 119995>>, <<119997, 120003>>,
    <<120005, 120069>>, <<120071, 120074>>, <<120077, 120084>>,
    <<120086, 120092>>, <<120094, 120121>>, <<120123, 120126>>,
    <<120128, 120132>>, <<120134, 120134>>, <<120138, 120144>>,
    <<120146, 120485>>, <<120488, 120512>>, <<120514, 120538>>,
    <<120540, 120570>>, <<120572, 120596>>, <<120598, 120628>>,
    <<120630, 120654>>, <<120656, 120686>>, <<120688, 120712>>,
    <<120714, 120744>>, <<120746, 120770>>, <<120772, 120779>>,
    <<122624, 122633>>, <<122635, 122654>>, <<122661, 122666>>,
    <<122928, 122989>>, <<125184, 125251>>, <<127280, 127305>>,
    <<127312, 127337>>, <<127344, 127369>> >>

\* the case-ignorable code points (property Case_Ignorable)
CaseIgnorableRanges == <<
    <<39, 39>>, <<46, 46>>, <<58, 58>>, <<94, 94>>, <<96, 96>>, <<168, 168>>,
    <<173, 173>>, <<175, 175>>, <<180, 180>>, <<183, 184>>, <<688, 879>>,
    <<884, 885>>, <<890, 890>>, <<900, 901>>, <<903, 903>>, <<1155, 1161>>,
    <<1369, 1369>>, <<1375, 1375>>, <<1425, 1469>>, <<1471, 1471>>,
    <<1473, 1474>>, <<1476, 1477>>, <<1479, 1479>>, <<1524, 1524>>,
    <<1536, 1541>>, <<1552, 1562>>, <<1564, 1564>>, <<1600, 1600>>,
    <<1611, 1631>>, <<1648, 1648>>, <<1750, 1757>>, <<1759, 1768>>,
    <<1770, 1773>>, <<1807, 1807>>, <<1809, 1809>>, <<1840, 1866>>,
    <<1958, 1968>>, <<2027, 2037>>, <<2042, 2042>>, <<2045, 2045>>,
    <<2070, 2093>>, <<2137, 2139>>, <<2184, 2184>>, <<2192, 2193>>,
    <<2199, 2207>>, <<2249, 2306>>, <<2362, 2362>>, <<2364, 2364>>,
    <<2369, 2376>>, <<2381, 2381>>, <<2385, 2391>>, <<2402, 2403>>,
    <<2417, 2417>>, <<2433, 2433>>, <<2492, 2492>>, <<2497, 2500>>,
    <<2509, 2509>>, <<2530, 2531>>, <<2558, 2558>>, <<2561, 2562>>,
    <<2620, 2620>>, <<2625, 2626>>, <<2631, 2632>>, <<2635, 2637>>,
    <<2641, 2641>>, <<2672, 2673>>, <<2677, 2677>>, <<2689, 2690>>,
    <<2748, 2748>>, <<2753, 2757>>, <<2759, 2760>>, <<2765, 2765>>,
    <<2786, 2787>>, <<2810, 2815>>, <<2817, 2817>>, <<2876, 2876>>,
    <<2879, 2879>>, <<2881, 2884>>, <<2893, 2893>>, <<2901, 2902>>,
    <<2914, 2915>>, <<2946, 2946>>, <<3008, 3008>>, <<3021, 3021>>,
    <<3072, 3072>>, <<3076, 3076>>, <<3132, 3132>>, <<3134, 3136>>,
    <<3142, 3144>>, <<3146, 3149>>, <<3157, 3158>>, <<3170, 3171>>,
    <<3201, 3201>>, <<3260, 3260>>, <<3263, 3263>>, <<3270, 3270>>,
    <<3276, 3277>>, <<3298, 3299>>, <<3328, 3329>>, <<3387, 3388>>,
    <<3393, 3396>>, <<3405, 3405>>, <<3426, 3427>>, <<3457, 3457>>,
    <<3530, 3530>>, <<3538, 3540>>, <<3542, 3542>>, <<3633, 3633>>,
    <<3636, 3642>>, <<3654, 3662>>, <<3761, 3761>>, <<3764, 3772>>,
    <<3782, 3782>>, <<3784, 3790>>, <<3864, 3865>>, <<3893, 3893>>,
    <<3895, 3895>>, <<3897, 3897>>, <<3953, 3966>>, <<3968, 3972>>,
    <<3974, 3975>>, <<3981, 3991>>, <<3993, 4028>>, <<4038, 4038>>,
    <<4141, 4144>>, <<4146, 4151>>, <<4153, 4154>>, <<4157, 4158>>,
    <<4184, 4185>>, <<4190, 4192>>, <<4209, 4212>>, <<4226, 4226>>,
    <<4229, 4230>>, <<4237, 4237>>, <<4253, 4253>>, <<4348, 4348>>,
    <<4957, 4959>>, <<5906, 5908>>, <<5938, 5939>>, <<5970, 5971>>,
    <<6002, 6003>>, <<6068, 6069>>, <<6071, 6077>>, <<6086, 6086>>,
    <<6089, 6099>>, <<6103, 6103>>, <<6109, 6109>>, <<6155, 6159>>,
    <<6211, 6211>>, <<6277, 6278>>, <<6313, 6313>>, <<6432, 6434>>,
    <<6439, 6440>>, <<6450, 6450>>, <<6457, 6459>>, <<6679, 6680>>,
    <<6683, 6683>>, <<6742, 6742>>, <<6744, 6750>>, <<6752, 6752>>,
    <<6754, 6754>>, <<6757, 6764>>, <<6771, 6780>>, <<6783, 6783>>,
    <<6823, 6823>>, <<6832, 6877>>, <<6880, 6891>>, <<6912, 6915>>,
    <<6964, 6964>>, <<6966, 6970>>, <<6972, 6972>>, <<6978, 6978>>,
    <<7019, 7027>>, <<7040, 7041>>, <<7074, 7077>>, <<7080, 7081>>,
    <<7083, 7085>>, <<7142, 7142>>, <<7144, 7145>>, <<7149, 7149>>,
    <<7151, 7153>>, <<7212, 7219>>, <<7222, 7223>>, <<7288, 7293>>,
    <<7376, 7378>>, <<7380, 7392>>, <<7394, 7400>>, <<7405, 7405>>,
    <<7412, 7412>>, <<7416, 7417>>, <<7468, 7530>>, <<7544, 7544>>,
    <<7579, 7679>>, <<8125, 8125>>, <<8127, 8129>>, <<8141, 8143>>,
    <<8157, 8159>>, <<8173, 8175>>, <<8189, 8190>>, <<8203, 8207>>,
    <<8216, 8217>>, <<8228, 8228>>, <<8231, 8231>>, <<8234, 8238>>,
    <<8288, 8292>>, <<8294, 8303>>, <<8305, 8305>>, <<8319, 8319>>,
    <<8336, 8348>>, <<8400, 8432>>, <<11388, 11389>>, <<11503, 11505>>,
    <<11631, 11631>>, <<11647, 11647>>, <<11744, 11775>>, <<11823, 11823>>,
    <<12293, 12293>>, <<12330, 12333>>, <<12337, 12341>>, <<12347, 12347>>,
    <<12441, 12446>>, <<12540, 12542>>, <<40981, 40981>>, <<42232, 42237>>,
    <<42508, 42508>>, <<42607, 42610>>, <<42612, 42621>>, <<42623, 42623>>,
    <<42652, 42655>>, <<42736, 42737>>, <<42752, 42785>>, <<42864, 42864>>,
    <<42888, 42890>>, <<42993, 42996>>, <<43000, 43001>>, <<43010, 43010>>,
    <<43014, 43014>>, <<43019, 43019>>, <<43045, 43046>>, <<43052, 43052>>,
    <<43204, 43205>>, <<43232, 43249>>, <<43263, 43263>>, <<43302, 43309>>,
    <<43335, 43345>>, <<43392, 43394>>, <<43443, 43443>>, <<43446, 43449>>,
    <<43452, 43453>>, <<43471, 43471>>, <<43493, 43494>>, <<43561, 43566>>,
    <<43569, 43570>>, <<43573, 43574>>, <<43587, 43587>>, <<43596, 43596>>,
    <<43632, 43632>>, <<43644, 43644>>, <<43696, 43696>>, <<43698, 43700>>,
    <<43703, 43704>>, <<43710, 43711>>, <<43713, 43713>>, <<43741, 43741>>,
    <<43756, 43757>>, <<43763, 43764>>, <<43766, 43766>>, <<43867, 43871>>,
    <<43881, 43883>>, <<44005, 44005>>, <<44008, 44008>>, <<44013, 44013>>,
    <<64286, 64286>>, <<64434, 64450>>, <<65024, 65039>>, <<65043, 65043>>,
    <<65056, 65071>>, <<65106, 65106>>, <<65109, 65109>>, <<65279, 65279>>,
    <<65287, 65287>>, <<65294, 65294>>, <<65306, 65306>>, <<65342, 65342>>,
    <<65344, 65344>>, <<65392, 65392>>, <<65438, 65439>>, <<65507, 65507>>,
    <<65529, 65531>>, <<66045, 66045>>, <<66272, 66272>>, <<66422, 66426>>,
    <<67456, 67461>>, <<67463, 67504>>, <<67506, 67514>>, <<68097, 68099>>,
    <<68101, 68102>>, <<68108, 68111>>, <<68152, 68154>>, <<68159, 68159>>,
    <<68325, 68326>>, <<68900, 68903>>, <<68942, 68942>>, <<68969, 68973>>,
    <<68975, 68975>>, <<69291, 69292>>, <<69317, 69317>>, <<69370, 69375>>,
    <<69446, 69456>>, <<69506, 69509>>, <<69633, 69633>>, <<69688, 69702>>,
    <<69744, 69744>>, <<69747, 69748>>, <<69759, 69761>>, <<69811, 69814>>,
    <<69817, 69818>>, <<69821, 69821>>, <<69826, 69826>>, <<69837, 69837>>,
    <<69888, 69890>>, <<69927, 69931>>, <<69933, 69940>>, <<70003, 70003>>,
    <<70016, 70017>>, <<70070, 70078>>, <<70089, 70092>>, <<70095, 70095>>,
    <<70191, 70193>>, <<70196, 70196>>, <<70198, 70199>>, <<70206, 70206>>,
    <<70209, 70209>>, <<70367, 70367>>, <<70371, 70378>>, <<70400, 70401>>,
    <<70459, 70460>>, <<70464, 70464>>, <<70502, 70508>>, <<70512, 70516>>,
    <<70587, 70592>>, <<70606, 70606>>, <<70608, 70608>>, <<70610, 70610>>,
    <<70625, 70626>>, <<70712, 70719>>, <<70722, 70724>>, <<70726, 70726>>,
    <<70750, 70750>>, <<70835, 70840>>, <<70842, 70842>>, <<70847, 70848>>,
    <<70850, 70851>>, <<71090, 71093>>, <<71100, 71101>>, <<71103, 71104>>,
    <<71132, 71133>>, <<71219, 71226>>, <<71229, 71229>>, <<71231, 71232>>,
    <<71339, 71339>>, <<71341, 71341>>, <<71344, 71349>>, <<71351, 71351>>,
    <<71453, 71453>>, <<71455, 71455>>, <<71458, 71461>>, <<71463, 71467>>,
    <<71727, 71735>>, <<71737, 71738>>, <<71995, 71996>>, <<71998, 71998>>,
    <<72003, 72003>>, <<72148, 72151>>, <<72154, 72155>>, <<72160, 72160>>,
    <<72193, 72202>>, <<72243, 72248>>, <<72251, 72254>>, <<72263, 72263>>,
    <<72273, 72278>>, <<72281, 72283>>, <<72330, 72342>>, <<72344, 72345>>,
    <<72544, 72544>>, <<72546, 72548>>, <<72550, 72550>>, <<72752, 72758>>,
    <<72760, 72765>>, <<72767, 72767>>, <<72850, 72871>>, <<72874, 72880>>,
    <<72882, 72883>>, <<72885, 72886>>, <<73009, 73014>>, <<73018, 73018>>,
    <<73020, 73021>>, <<73023, 73029>>, <<73031, 73031>>, <<73104, 73105>>,
    <<73109, 73109>>, <<73111, 73111>>, <<73177, 73177>>, <<73459, 73460>>,
    <<73472, 73473>>, <<73526, 73530>>, <<73536, 73536>>, <<73538, 73538>>,
    <<73562, 73562>>, <<78896, 78912>>, <<78919, 78933>>, <<90398, 90409>>,
    <<90413, 90415>>, <<92912, 92916>>, <<92976, 92982>>, <<92992, 92995>>,
    <<93504, 93506>>, <<93547, 93548>>, <<94031, 94031>>, <<94095, 94111>>,
    <<94176, 94177>>, <<94179, 94180>>, <<94194, 94195>>, <<110576, 110579>>,
    <<110581, 110587>>, <<110589, 110590>>, <<113821, 113822>>,
    <<113824, 113827>>, <<118528, 118573>>, <<118576, 118598>>,
    <<119143, 119145>>, <<119155, 119170>>, <<119173, 119179>>,
    <<119210, 119213>>, <<119362, 119364>>, <<121344, 121398>>,
    <<121403, 121452>>, <<121461, 121461>>, <<121476, 121476>>,
    <<121499, 121503>>, <<121505, 121519>>, <<122880, 122886>>,
    <<122888, 122904>>, <<122907, 122913>>, <<122915, 122916>>,
    <<122918, 122922>>, <<122928, 122989>>, <<123023, 123023>>,
    <<123184, 123197>>, <<123566, 123566>>, <<123628, 123631>>,
    <<124139, 124143>>, <<124398, 124399>>, <<124643, 124643>>,
    <<124646, 124646>>, <<124654, 124655>>, <<124661, 124661>>,
    <<124671, 124671>>, <<125136, 125142>>, <<125252, 125259>>,
    <<127995, 127999>>, <<917505, 917505>>, <<917536, 917631>>,
    <<917760, 917999>> >>

IsCased(c) == InRanges(c, CasedRanges)
IsCaseIgnorable(c) == InRanges(c, CaseIgnorableRanges)

\* a cased letter stands at or before position i of the code points p, with
\* nothing but case-ignorable code points in between; these are skipped
\* whether cased or not
RECURSIVE CasedBefore(_, _)
CasedBefore(p, i) ==
    IF i < 1 THEN FALSE
    ELSE IF IsCaseIgnorable(p[i]) THEN CasedBefore(p, i - 1)
    ELSE IsCased(p[i])

RECURSIVE CasedAfter(_, _)
CasedAfter(p, i) ==
    IF i > Len(p) THEN FALSE
    ELSE IF IsCaseIgnorable(p[i]) THEN CasedAfter(p, i + 1)
    ELSE IsCased(p[i])

\* the lower case of the code point at position i: U+0130 becomes i and
\* U+0307, U+03A3 the final sigma U+03C2 when it ends a word and U+03C3
\* otherwise
LowerAt(p, i) ==
    IF p[i] = 304 THEN <<105, 775>>
    ELSE IF p[i] = 931
    THEN IF CasedBefore(p, i - 1) /\ ~CasedAfter(p, i + 1) THEN <<962>> ELSE <<963>>
    ELSE <<toLowerChar(p[i])>>

\* String.prototype.toLowerCase
toLowerCase(s) ==
    LET p == CodePoints(s)
    IN  CodeUnits(ConcatRange([i \in 1..Len(p) |-> LowerAt(p, i)], 1, Len(p)))

\* the white space and line terminators of ECMAScript: tab, line feed,
\* vertical tab, form feed, carriage return, space, U+00A0, U+1680,
\* U+2000..U+200A, U+2028, U+2029, U+202F, U+205F, U+3000, U+FEFF
WhiteSpace ==
    {9, 10, 11, 12, 13, 32, 160, 5760, 8232, 8233, 8239, 8287, 12288, 65279}
        \cup (8192..8202)

IsSpace(c) == c \in WhiteSpace

RECURSIVE trimStart(_)
trimStart(s) ==
    IF s # <<>> /\ IsSpace(Head(s)) THEN trimStart(Tail(s)) ELSE s

RECURSIVE trimEnd(_)
trimEnd(s) ==
    IF s # <<>> /\ IsSpace(s[Len(s)]) THEN trimEnd(SubSeq(s, 1, Len(s) - 1)) ELSE s

\* String.prototype.trim
trim(s) == trimEnd(trimStart(s))

\* A value of req.body is a string, a number (the units of its text behind
\* the tag -2), true or false (behind the tag -3), or null (the tag -1),
\* which also stands for a field that is missing; no string starts with a tag
JsNull == <<-1>>
JsTrue == <<-3, 116, 114, 117, 101>>
JsFalse == <<-3, 102, 97, 108, 115, 101>>

IsString(v) == v = <<>> \/ Head(v) >= 0

IsNumber(v) == v # <<>> /\ Head(v) = -2

\* String(v): the text of a value, as the regular expression and the store's
\* driver see it
ToText(v) ==
    IF IsString(v) THEN v
    ELSE IF v = JsNull THEN <<110, 117, 108, 108>>
    ELSE Tail(v)

\* !x: the empty string, null, false and the number 0 are falsy
Falsy(v) ==
    \/ v = <<>>
    \/ v = JsNull
    \/ v = JsFalse
    \/ IsNumber(v) /\ \A i \in 2..Len(v) : v[i] = 48

\* /^[^\s@]+@[^\s@]+\.[^\s@]+$/.test(s): one "@" (64) at position a, no white
\* space anywhere, a non-empty local part, and a "." (46) after the "@" with
\* at least one character on either side of it
emailRegexTest(s) ==
    \E a \in 1..Len(s) :
        /\ s[a] = 64
        /\ a >= 2
        /\ \A i \in (1..Len(s)) \ {a} : ~IsSpace(s[i]) /\ s[i] # 64
        /\ \E d \in (a + 2)..(Len(s) - 1) : s[d] = 46

\* the code points of a parameter as the driver encodes it in UTF-8: a
\* surrogate that is not part of a pair becomes U+FFFD; a text without
\* surrogates is its own sequence of code points
Utf8(s) ==
    IF \A i \in 1..Len(s) : s[i] \notin 55296..57343 THEN s
    ELSE LET p == CodePoints(s)
         IN  [i \in 1..Len(p) |-> IF p[i] \in 55296..57343 THEN 65533 ELSE p[i]]

\* the store accepts no text that holds U+0000
HasNul(s) == \E i \in 1..Len(s) : s[i] = 0

\* the assignment of a text to a VARCHAR(n) column, whose width counts
\* characters: characters in excess that are all spaces are cut off, any
\* other excess is an error
Fits(s, n) ==
    Len(s) <= n \/ \A i \in (n + 1)..Len(Utf8(s)) : Utf8(s)[i] = 32
Varchar(s, n) ==
    CodeUnits(IF Len(Utf8(s)) > n THEN SubSeq(Utf8(s), 1, n) ELSE Utf8(s))

(***************************************************************************)
(* The inputs the requests are drawn from.                                 *)
(***************************************************************************)
Apple == <<65, 112, 112, 108, 101>>    \* "Apple"
Google == <<71, 111, 111, 103, 108, 101>>    \* "Google"
Acme == <<65, 99, 109, 101>>    \* "Acme"

NameAna == <<65, 110, 97>>    \* "Ana"
EmailAnaUpper == <<65, 110, 97, 64, 88, 46, 99, 111, 109>>    \* "Ana@X.com"
EmailAnaLower == <<97, 110, 97, 64, 120, 46, 99, 111, 109>>    \* "ana@x.com"
EmailAnaSpace == <<97, 110, 97, 64, 120, 46, 99, 111, 109, 32>>    \* "ana@x.com "
EmailBob == <<98, 111, 98, 64, 121, 46, 111, 114, 103>>    \* "bob@y.org"
Phone1 == <<53, 53, 53, 45, 48, 48, 48, 49>>    \* "555-0001"
Phone2 == <<53, 53, 53, 45, 48, 48, 48, 50>>    \* "555-0002"

\* the phone given as the JSON number 5550003
PhoneNumber3 == <<-2, 53, 53, 53, 48, 48, 48, 51>>

EmailCy == <<99, 121, 64, 122, 46, 105, 111>>    \* "cy@z.io"
Phone3 == <<53, 53, 53, 45, 48, 48, 48, 51>>    \* "555-0003"

CompanyIds == 1..MaxCompanyId

Bodies(names, emails, phones, ids) ==
    [voterName : names, voterEmail : emails, voterPhone : phones, companyVote : ids]

\* the service under sequential requests and administration
VoteBodies ==
    Bodies({NameAna}, {<<>>, EmailAnaUpper, EmailAnaLower, EmailAnaSpace, EmailBob},
           {Phone1, Phone2}, CompanyIds)
\* a name in lower case, which the collations place differently
Apex == <<97, 112, 101, 120>>    \* "apex"
CompanyNames == {<<>>, <<32>>, Apple, Acme, <<32>> \o Acme \o <<32>>, Apex}

\* the service restarted between requests
BootBodies == Bodies({NameAna}, {EmailAnaUpper, EmailBob}, {Phone1, Phone2}, {1, 2})
BootNames == {<<32>>, Apple, Acme}

\* two connections racing
RaceBodies ==
    Bodies({NameAna}, {EmailAnaUpper, EmailAnaLower, EmailBob}, {Phone1, Phone2}, {1})

\* the widths of the VARCHAR columns of votes and of companies.name
NameWidth == 255
EmailWidth == 255
PhoneWidth == 20
CompanyNameWidth == 255
\* the width of companies.website
WebsiteWidth == 255

\* a phone of one character more than its column holds
LongPhone == [i \in 1..(PhoneWidth + 1) |-> 53]
\* a company name of one character more than its column holds
LongName == [i \in 1..(CompanyNameWidth + 1) |-> 97]
\* the company name given as the JSON number 7
NameNumber7 == <<-2, 55>>

\* the width of companies.logo_url
LogoWidth == 500

\* new URL(text) refuses the text, or is never reached
UrlThrows == <<-4>>

\* the website of a request to add a company: a string, the JSON number 5,
\* a string of one character more than its column holds, and 240
\* ideographs before ".com", whose hostname is "xn--" and the Punycode of
\* the label
SiteAcme == <<97, 99, 109, 101, 46, 99, 111, 109>>    \* "acme.com"
SiteNumber5 == <<-2, 53>>
LongSite == [i \in 1..(WebsiteWidth + 1) |-> 97]
IdnSite == [i \in 1..240 |-> 19968 + 37 * (i - 1)] \o <<46, 99, 111, 109>>
IdnHost == <<
    120, 110, 45, 45, 52, 103, 113, 54, 99, 49, 101, 55, 102, 57, 103, 111,
    105, 113, 106, 113, 107, 111, 108, 119, 109, 114, 110, 121, 111, 113,
    112, 119, 113, 50, 114, 56, 115, 118, 116, 48, 117, 53, 118, 101, 120,
    106, 121, 111, 122, 48, 122, 52, 48, 97, 112, 48, 97, 114, 49, 97, 116,
    50, 97, 118, 51, 97, 120, 52, 97, 122, 53, 97, 49, 54, 97, 51, 55, 97,
    53, 56, 97, 55, 57, 97, 57, 122, 98, 99, 48, 98, 101, 49, 98, 103, 50,
    98, 105, 51, 98, 107, 52, 98, 109, 53, 98, 111, 53, 98, 113, 54, 98, 115,
    55, 98, 117, 56, 98, 119, 57, 98, 121, 120, 99, 48, 119, 99, 50, 120, 99,
    52, 121, 99, 54, 122, 99, 56, 48, 99, 98, 48, 99, 100, 49, 99, 102, 50,
    99, 104, 51, 99, 106, 52, 99, 108, 53, 99, 110, 52, 99, 112, 53, 99, 114,
    54, 99, 116, 55, 99, 118, 56, 99, 120, 57, 99, 122, 56, 99, 49, 57, 99,
    51, 116, 100, 53, 117, 100, 55, 118, 100, 57, 119, 100, 99, 121, 100,
    101, 119, 100, 103, 120, 100, 105, 121, 100, 107, 122, 100, 109, 48, 100,
    111, 49, 100, 113, 50, 100, 115, 51, 100, 117, 52, 100, 119, 53, 100,
    121, 51, 100, 48, 52, 100, 50, 53, 100, 52, 54, 100, 54, 55, 100, 56, 56,
    100, 98, 114, 101, 100, 115, 101, 102, 116, 101, 104, 113, 101, 106, 114,
    101, 108, 115, 101, 110, 116, 101, 112, 117, 101, 114, 118, 101, 116,
    119, 101, 118, 120, 101, 120, 121, 101, 122, 122, 101, 49, 48, 101, 51,
    49, 101, 53, 121, 101, 55, 122, 101, 57, 48, 101, 99, 50, 101, 101, 51,
    101, 103, 52, 101, 105, 53, 101, 107, 54, 101, 109, 55, 101, 111, 56,
    101, 113, 57, 101, 115, 54, 101, 117, 55, 101, 119, 56, 101, 121, 57,
    101, 48, 111, 102, 50, 112, 102, 52, 113, 102, 54, 114, 102, 56, 115,
    102, 98, 117, 102, 100, 118, 102, 102, 119, 102, 104, 120, 102, 106, 121,
    102, 108, 122, 102, 110, 118, 102, 112, 119, 102, 114, 120, 102, 116,
    121, 102, 118, 122, 102, 120, 48, 102, 122, 49, 102, 49, 50, 102, 51, 51,
    102, 53, 52, 102, 55, 53, 102, 57, 54, 102, 99, 56, 102, 101, 57, 102,
    103, 110, 103, 105, 54, 102, 107, 55, 102, 109, 56, 102, 111, 57, 102,
    113, 109, 103, 115, 110, 103, 117, 111, 103, 119, 112, 103, 121, 113,
    103, 48, 114, 103, 50, 115, 103, 52, 116, 103, 54, 117, 103, 56, 118,
    103, 98, 120, 103, 100, 121, 103, 102, 122, 103, 104, 48, 103, 106, 49,
    103, 108, 50, 103, 110, 51, 103, 112, 121, 103, 114, 122, 103, 116, 48,
    103, 118, 49, 103, 120, 50, 103, 122, 51, 103, 49, 52, 103, 51, 53, 103,
    53, 54, 103, 55, 55, 103, 57, 56, 103, 99, 108, 104, 101, 109, 104, 103,
    110, 104, 105, 111, 104, 107, 112, 104, 109, 113, 104, 111, 114, 104,
    113, 115, 104, 115, 116, 104, 117, 117, 104, 119, 118, 104, 121, 119,
    104, 48, 113, 104, 50, 114, 104, 52, 115, 104, 54, 116, 104, 56, 117,
    104, 98, 119, 104, 100, 120, 104, 102, 121, 104, 104, 122, 104, 106, 48,
    104, 108, 49, 104, 110, 50, 104, 112, 51, 104, 114, 52, 104, 116, 53,
    104, 118, 54, 104, 120, 55, 104, 122, 56, 104, 49, 57, 104, 51, 107, 105,
    53, 108, 105, 55, 109, 105, 57, 110, 105, 99, 112, 105, 101, 113, 105,
    103, 114, 105, 105, 115, 105, 107, 116, 105, 109, 109, 105, 111, 110,
    105, 113, 111, 105, 115, 112, 105, 117, 113, 105, 119, 114, 105, 121,
    115, 105, 48, 116, 105, 50, 117, 105, 52, 118, 105, 54, 119, 105, 56,
    120, 105, 98, 122, 105, 100, 48, 105, 102, 49, 105, 104, 50, 105, 106,
    51, 105, 108, 52, 105, 110, 53, 105, 112, 54, 105, 114, 55, 105, 116, 56,
    105, 118, 57, 105, 120, 106, 106, 122, 107, 106, 46, 99, 111, 109 >>

\* the requests' websites, each with the hostname the URL parser of the
\* runtime gives for it
Sites ==
    {[website |-> JsNull, hostname |-> UrlThrows],
     [website |-> SiteAcme, hostname |-> SiteAcme],
     [website |-> SiteNumber5, hostname |-> UrlThrows],
     [website |-> LongSite, hostname |-> LongSite],
     [website |-> IdnSite, hostname |-> IdnHost]}

\* submissions that reach the webhook, and those with a name or a phone
\* that is not a string or a phone too long for its column
HookBodies ==
    Bodies({NameAna, JsTrue}, {EmailAnaLower, EmailBob},
           {Phone1, PhoneNumber3, LongPhone}, {1, 2})
HookNames == {Acme, LongName, NameNumber7}

\* tallies of up to three votes
TallyBodies ==
    Bodies({NameAna}, {EmailAnaLower, EmailBob, EmailCy}, {Phone1, Phone2, Phone3}, {1, 2})

(***************************************************************************)
(* The store.                                                              *)
(***************************************************************************)
NoTable == [exists |-> FALSE, uniq |-> FALSE, pass |-> 0, rows |-> {}]
NoCompanies == [exists |-> FALSE, rows |-> {}, seq |-> 1]

\* a votes table as it stood before the constraints were introduced: no
\* UNIQUE on voter_email or voter_phone, holding a historical row
LegacyRow ==
    [voter_name |-> NameAna, voter_email |-> EmailAnaUpper,
     voter_phone |-> Phone1, company_id |-> 1]
LegacyVotes == [exists |-> TRUE, uniq |-> FALSE, pass |-> 0, rows |-> {LegacyRow}]
LegacyCompanies ==
    [exists |-> TRUE,
     rows |-> {[id |-> 1, name |-> Apple, active |-> TRUE],
               [id |-> 2, name |-> Google, active |-> TRUE]},
     seq |-> 3]

NoConstraint == [name |-> "", pass |-> 0]
\* the result of a query not yet made
NoResult == [code |-> "", constraint |-> NoConstraint]

IdleReq ==
    [pc |-> "idle", voterName |-> <<>>, voterEmail |-> <<>>,
     voterPhone |-> <<>>, companyVote |-> 0, res |-> NoResult]

Init ==
    /\ variant \in {"server", "simple"}
    /\ boots = 0
    /\ \/ /\ companies = NoCompanies
          /\ votes = NoTable
       \/ /\ companies = LegacyCompanies
          /\ votes = LegacyVotes
    /\ votes_new = NoTable
    /\ votes_old = NoTable
    /\ req = [r \in Slots |-> IdleReq]
    /\ fetches = {}
    /\ running = FALSE

(***************************************************************************)
(* initDB: the startup initialisation.  The server listens only after it   *)
(* has returned, so no handler runs between its statements.                *)
(***************************************************************************)
\* CREATE TABLE IF NOT EXISTS companies (... name VARCHAR(255) NOT NULL UNIQUE ...)
CreateCompanies(c) ==
    IF c.exists THEN c ELSE [exists |-> TRUE, rows |-> {}, seq |-> 1]

\* PostgreSQL names the implicit unique constraints of votes_new
\* votes_new_voter_email_key and votes_new_voter_phone_key, and appends the
\* first number 1, 2, ... that makes the name free when a table created by an
\* earlier run (and since renamed) still carries it.  pass 0 is the bare name.
UsedPasses(tabs) == {t.pass : t \in {u \in tabs : u.exists /\ u.uniq}}

ChoosePass(tabs) ==
    CHOOSE n \in 0..Cardinality(tabs) :
        /\ n \notin UsedPasses(tabs)
        /\ \A m \in 0..(n - 1) : m \in UsedPasses(tabs)

\* CREATE TABLE IF NOT EXISTS votes_new (... voter_email ... UNIQUE, voter_phone ... UNIQUE ...)
CreateVotesNew(vn, others) ==
    IF vn.exists THEN vn
    ELSE [exists |-> TRUE, uniq |-> TRUE, pass |-> ChoosePass(others), rows |-> {}]

\* one row of INSERT INTO companies ... ON CONFLICT (name) DO NOTHING: the id
\* default (nextval) is taken before the conflict is detected
InsertOrIgnore(c, name) ==
    [c EXCEPT !.seq = @ + 1,
              !.rows = IF \E x \in @ : x.name = name THEN @
                       ELSE @ \cup {[id |-> c.seq, name |-> name, active |-> TRUE]}]

SeedDefaults(c) == InsertOrIgnore(InsertOrIgnore(c, Apple), Google)

\* the inner try block: DROP TABLE IF EXISTS votes_old; ALTER TABLE votes
\* RENAME TO votes_old; ALTER TABLE votes_new RENAME TO votes.  The first
\* ALTER throws when there is no table votes, and the catch only logs; the
\* DROP before it has already taken effect.
RenameSequence(v, vn) ==
    IF v.exists
    THEN [votes |-> vn, votes_new |-> NoTable, votes_old |-> v]
    ELSE [votes |-> v, votes_new |-> vn, votes_old |-> NoTable]

initDB ==
    LET vn == CreateVotesNew(votes_new, {votes, votes_old})
        t == RenameSequence(votes, vn)
    IN  /\ companies' = SeedDefaults(CreateCompanies(companies))
        /\ votes' = t.votes
        /\ votes_new' = t.votes_new
        /\ votes_old' = t.votes_old

\* startServer: the process starts (boots = 0) or is restarted, with no
\* request in flight; restarts counts the restarts the exploration allows.
\* app.listen follows initDB.
StartServer(restarts) ==
    /\ boots <= restarts
    /\ \A r \in Slots : req[r].pc = "idle"
    /\ initDB
    /\ boots' = boots + 1
    /\ fetches' = {}
    /\ running' = TRUE
    /\ UNCHANGED <<variant, req>>

(***************************************************************************)
(* Queries of the handlers.                                                *)
(***************************************************************************)
\* SELECT ... FROM companies WHERE id = $1 AND active = true
ActiveCompany(id) == {c \in companies.rows : c.id = id /\ c.active}

\* SELECT id FROM votes WHERE voter_email = $1
VotesByEmail(email) == {v \in votes.rows : v.voter_email = CodeUnits(Utf8(email))}

ConstraintName(t, column) ==
    [name |-> IF column = "voter_email" THEN "votes_new_voter_email_key"
              ELSE "votes_new_voter_phone_key",
     pass |-> t.pass]
\* the row as the columns of votes hold it
StoredRow(row) ==
    [voter_name |-> Varchar(row.voter_name, NameWidth),
     voter_email |-> Varchar(row.voter_email, EmailWidth),
     voter_phone |-> Varchar(row.voter_phone, PhoneWidth),
     company_id |-> row.company_id]

\* the outcome of INSERT INTO votes (...) VALUES (...) RETURNING id: the
\* SQLSTATE ("" on success) and the constraint the error names.  A text
\* too long for its column is rejected before the indexes are consulted;
\* the unique index on voter_email was created first and is checked first.
InsertVoteResult(t, row) ==
    IF ~t.exists THEN [code |-> "42P01", constraint |-> NoConstraint]
    ELSE IF HasNul(row.voter_name) \/ HasNul(row.voter_email) \/ HasNul(row.voter_phone)
    THEN [code |-> "22021", constraint |-> NoConstraint]
    ELSE IF ~Fits(row.voter_name, NameWidth) \/ ~Fits(row.voter_email, EmailWidth)
            \/ ~Fits(row.voter_phone, PhoneWidth)
    THEN [code |-> "22001", constraint |-> NoConstraint]
    ELSE IF t.uniq /\ \E v \in t.rows : v.voter_email = StoredRow(row).voter_email
    THEN [code |-> "23505", constraint |-> ConstraintName(t, "voter_email")]
    ELSE IF t.uniq /\ \E v \in t.rows : v.voter_phone = StoredRow(row).voter_phone
    THEN [code |-> "23505", constraint |-> ConstraintName(t, "voter_phone")]
    ELSE IF ~\E c \in companies.rows : c.id = row.company_id
    THEN [code |-> "23503", constraint |-> NoConstraint]
    ELSE [code |-> "", constraint |-> NoConstraint]

\* the constraint names the catch block of part_000 compares with
UniqueEmailName == [name |-> "unique_email", pass |-> 0]
UniquePhoneName == [name |-> "unique_phone", pass |-> 0]

\* the values the handler passes to the INSERT
cleanEmail(b) == trim(toLowerCase(b.voterEmail))
cleanPhone(b) == trim(b.voterPhone)

\* the parameters of the INSERT: part_000 passes the cleaned values,
\* server.js the values of req.body, which the driver sends as text
VoteRow(b) ==
    IF variant = "simple"
    THEN [voter_name |-> trim(b.voterName), voter_email |-> cleanEmail(b),
          voter_phone |-> cleanPhone(b), company_id |-> b.companyVote]
    ELSE [voter_name |-> ToText(b.voterName), voter_email |-> ToText(b.voterEmail),
          voter_phone |-> ToText(b.voterPhone), company_id |-> b.companyVote]

Response(status, text) == [status |-> status, text |-> text]
\* no response yet: the handler goes on to its next query
Pending == Response(0, "")
\* no response at all: the handler threw outside its try block, the promise
\* of the async handler is rejected and nothing answers the request
Unanswered == Response(0, "TypeError")

\* the catch block of the vote handler
VoteError(res) ==
    IF variant = "simple" /\ res.code = "23505"
    THEN IF res.constraint = UniqueEmailName
         THEN Response(400, "This email address has already been used to vote")
         ELSE IF res.constraint = UniquePhoneName
         THEN Response(400, "This phone number has already been used to vote")
         ELSE Response(400, "You have already voted")
    ELSE Response(500, "Failed to submit vote")

InFlight(b, pc) ==
    [pc |-> pc, voterName |-> b.voterName, voterEmail |-> b.voterEmail,
     voterPhone |-> b.voterPhone, companyVote |-> b.companyVote, res |-> NoResult]

(***************************************************************************)
(* POST /api/vote                                                          *)
(***************************************************************************)
\* the company lookup and the response it decides
VoteLookupOutcome(b) ==
    IF ActiveCompany(b.companyVote) = {}
    THEN Response(400, "Invalid company selection")
    ELSE Pending

\* the parameters of the INSERT are evaluated inside the try block:
\* voterName.trim() of part_000 throws for a name that is not a string, and
\* the catch block answers
VoteArgsOutcome(b) ==
    IF variant = "simple" /\ ~IsString(b.voterName)
    THEN Response(500, "Failed to submit vote")
    ELSE Pending

\* the request arrives: validation, then the handler's first query (the
\* company lookup in part_000, the e-mail pre-check in server.js).  In
\* part_000 voterEmail.toLowerCase() and voterPhone.trim() run before the
\* try block.
VoteStartOutcome(b) ==
    IF Falsy(b.voterName) \/ Falsy(b.voterEmail) \/ Falsy(b.voterPhone)
       \/ b.companyVote = 0
    THEN Response(400, "All fields are required")
    ELSE IF ~emailRegexTest(ToText(b.voterEmail))
    THEN Response(400, "Invalid email format")
    ELSE IF variant = "simple"
    THEN IF ~IsString(b.voterEmail) \/ ~IsString(b.voterPhone)
         THEN Unanswered
         ELSE IF VoteLookupOutcome(b) # Pending THEN VoteLookupOutcome(b)
         ELSE VoteArgsOutcome(b)
    ELSE IF ~votes.exists \/ HasNul(ToText(b.voterEmail))
    THEN Response(500, "Failed to submit vote")
    ELSE IF VotesByEmail(ToText(b.voterEmail)) # {}
    THEN Response(400, "This email has already voted")
    ELSE Pending

\* the response once the INSERT has returned res
VoteRespondOutcome(res) ==
    IF res.code = "" THEN Response(201, "Vote submitted successfully")
    ELSE VoteError(res)

\* the INSERT made now and the response that follows it
VoteInsertOutcome(b) == VoteRespondOutcome(InsertVoteResult(votes, VoteRow(b)))

\* the rejection of the handler's promise is handled nowhere: Node 15 and
\* later end the process (exit code 1), and with it every request in flight
\* and every fetch not yet settled; earlier versions only warn
unhandledRejection ==
    \/ /\ running' = FALSE
       /\ req' = [r \in Slots |-> IdleReq]
       /\ fetches' = {}
    \/ UNCHANGED <<running, req, fetches>>

VoteStart(r, b) ==
    /\ running
    /\ req[r].pc = "idle"
    /\ IF VoteStartOutcome(b) = Unanswered
       THEN unhandledRejection
       ELSE /\ req' = IF VoteStartOutcome(b) = Pending
                      THEN [req EXCEPT ![r] =
                              InFlight(b, IF variant = "simple" THEN "insert"
                                          ELSE "lookup")]
                      ELSE req
            /\ UNCHANGED <<running, fetches>>
    /\ UNCHANGED <<variant, boots, companies, votes, votes_new, votes_old>>

\* server.js: the company lookup, awaited after the pre-check
VoteLookup(r) ==
    /\ running
    /\ req[r].pc = "lookup"
    /\ req' = IF VoteLookupOutcome(req[r]) = Pending
              THEN [req EXCEPT ![r].pc = "insert"]
              ELSE [req EXCEPT ![r] = IdleReq]
    /\ UNCHANGED <<variant, boots, companies, votes, votes_new, votes_old,
                   fetches, running>>

\* the store executes the INSERT; the handler has not resumed yet
VoteInsert(r) ==
    /\ running
    /\ req[r].pc = "insert"
    /\ LET res == InsertVoteResult(votes, VoteRow(req[r]))
       IN  /\ req' = [req EXCEPT ![r].pc = "respond", ![r].res = res]
           /\ votes' = IF res.code = ""
                       THEN [votes EXCEPT !.rows = @ \cup {StoredRow(VoteRow(req[r]))}]
                       ELSE votes
    /\ UNCHANGED <<variant, boots, companies, votes_new, votes_old, fetches, running>>

\* the voteData passed to sendToGoogleSheets: the fields that identify the
\* voter and the company; companyWebsite and voteId, which no handler reads
\* back, are left out, as are the website column and the id column of votes
VoteData(b) ==
    [voterName |-> trim(b.voterName), voterEmail |-> cleanEmail(b),
     voterPhone |-> cleanPhone(b),
     companyName |-> (CHOOSE c \in companies.rows : c.id = b.companyVote).name]

\* sendToGoogleSheets up to its await: nothing is sent when the webhook URL
\* is not configured, else the fetch is started and is not awaited
sendToGoogleSheets(voteData, configured) ==
    IF configured THEN fetches \cup {voteData} ELSE fetches

\* the handler resumes after the INSERT: on success (part_000) the call of
\* sendToGoogleSheets, then the response; on an error the catch block.
\* configured tells whether GOOGLE_SHEETS_WEBHOOK_URL is set in the
\* environment
VoteRespond(r, configured) ==
    /\ running
    /\ req[r].pc = "respond"
    /\ req' = [req EXCEPT ![r] = IdleReq]
    /\ fetches' = IF variant = "simple" /\ req[r].res.code = ""
                  THEN sendToGoogleSheets(VoteData(req[r]), configured)
                  ELSE fetches
    /\ UNCHANGED <<variant, boots, companies, votes, votes_new, votes_old, running>>

\* the outcomes of the fetch: response.ok, a response that is not ok, an error
FetchOutcomes == {"ok", "not ok", "error"}

\* the rest of sendToGoogleSheets, after the await: every outcome is logged
\* and nothing else
FetchSettle(voteData, outcome) ==
    /\ running
    /\ voteData \in fetches
    /\ outcome \in FetchOutcomes
    /\ fetches' = fetches \ {voteData}
    /\ UNCHANGED <<variant, boots, companies, votes, votes_new, votes_old, req,
                   running>>

(***************************************************************************)
(* Company administration                                                  *)
(***************************************************************************)
\* s.startsWith(pat)
startsWith(s, pat) == Len(s) >= Len(pat) /\ SubSeq(s, 1, Len(pat)) = pat

\* the text generateLogoUrl hands to new URL:
\* website.startsWith('http') ? website : `https://${website}`
UrlText(website) ==
    IF startsWith(website, <<104, 116, 116, 112>>) THEN website
    ELSE <<104, 116, 116, 112, 115, 58, 47, 47>> \o website

\* s.replace(pat, ''): the first occurrence of pat is taken out
replace(s, pat) ==
    LET at == {i \in 1..(Len(s) - Len(pat) + 1) : SubSeq(s, i, i + Len(pat) - 1) = pat}
    IN  IF at = {} THEN s
        ELSE LET i == CHOOSE j \in at : \A k \in at : j <= k
             IN  SubSeq(s, 1, i - 1) \o SubSeq(s, i + Len(pat), Len(s))

\* "https://logo.clearbit.com/"
LogoService ==
    <<104, 116, 116, 112, 115, 58, 47, 47, 108, 111, 103, 111, 46, 99, 108,
      101, 97, 114, 98, 105, 116, 46, 99, 111, 109, 47>>

\* generateLogoUrl of server.js, where hostname is new URL(UrlText(website))
\* .hostname as the runtime gives it, or UrlThrows: no logo without a
\* website; a website without startsWith, or a text the parser refuses,
\* throws inside the try block of the function, whose catch returns null
generateLogoUrl(website, hostname) ==
    IF Falsy(website) \/ ~IsString(website) \/ hostname = UrlThrows THEN JsNull
    ELSE LogoService \o replace(hostname, <<119, 119, 119, 46>>)

\* the logo_url of the INSERT: server.js passes generateLogoUrl(website),
\* part_000 leaves the column to its default
LogoArg(website, hostname) ==
    IF variant = "server" THEN generateLogoUrl(website, hostname) ELSE JsNull

\* website?.trim() || null: no call is made on null or undefined, and the
\* empty string gives null
WebsiteArg(website) ==
    IF website = JsNull \/ trim(website) = <<>> THEN JsNull ELSE trim(website)

\* a website that is neither absent nor a string has no method trim: the
\* call throws inside the try block, before the query is made
WebsiteThrows(website) == website # JsNull /\ ~IsString(website)

\* the outcome of INSERT INTO companies (name, website[, logo_url]) VALUES
\* (...): the SQLSTATE, "" on success.  A text with U+0000 or too long for
\* its column is refused when the parameters are bound, before the row is
\* formed.
InsertCompanyCode(name, website, logo) ==
    IF \/ HasNul(name)
       \/ website # JsNull /\ HasNul(website)
       \/ logo # JsNull /\ HasNul(logo)
    THEN "22021"
    ELSE IF \/ ~Fits(name, CompanyNameWidth)
            \/ website # JsNull /\ ~Fits(website, WebsiteWidth)
            \/ logo # JsNull /\ ~Fits(logo, LogoWidth)
    THEN "22001"
    ELSE IF \E c \in companies.rows : c.name = Varchar(name, CompanyNameWidth)
    THEN "23505"
    ELSE ""

\* the SQLSTATE of the INSERT the handler sends for a request
AddCompanyCode(name, website, hostname) ==
    InsertCompanyCode(trim(name), WebsiteArg(website), LogoArg(website, hostname))

\* POST /api/admin/companies: the response.  name.trim() in the condition
\* of the if runs before the try block, website?.trim() inside it.
AddCompanyOutcome(name, website, hostname) ==
    IF Falsy(name) THEN Response(400, "Company name is required")
    ELSE IF ~IsString(name) THEN Unanswered
    ELSE IF trim(name) = <<>> THEN Response(400, "Company name is required")
    ELSE IF WebsiteThrows(website) THEN Response(500, "Failed to add company")
    ELSE IF AddCompanyCode(name, website, hostname) = "23505"
    THEN Response(400, "Company already exists")
    ELSE IF AddCompanyCode(name, website, hostname) # ""
    THEN Response(500, "Failed to add company")
    ELSE Response(201, "Company added successfully")

\* INSERT INTO companies (name, website[, logo_url]) VALUES (...) RETURNING
\* *: a statement refused for its parameters leaves the table and its
\* sequence as they are; otherwise the id default is taken from the
\* sequence, also when the unique index then refuses the row
InsertCompany(name, website, hostname) ==
    IF AddCompanyCode(name, website, hostname) \in {"22021", "22001"}
    THEN companies
    ELSE [companies EXCEPT
            !.seq = @ + 1,
            !.rows = IF AddCompanyCode(name, website, hostname) = "23505"
                     THEN @
                     ELSE @ \cup {[id |-> companies.seq,
                                   name |-> Varchar(trim(name), CompanyNameWidth),
                                   active |-> TRUE]}]

\* the table after the handler: the INSERT is not reached without a name,
\* nor when website?.trim() throws
AddCompanyResult(name, website, hostname) ==
    IF Falsy(name) \/ ~IsString(name) \/ trim(name) = <<>> \/ WebsiteThrows(website)
    THEN companies
    ELSE InsertCompany(name, website, hostname)

\* the guard caps the id sequence, which a row refused for its name advances
\* too
AddCompany(name, website, hostname) ==
    /\ running
    /\ companies.seq <= MaxCompanyId
    /\ IF AddCompanyOutcome(name, website, hostname) = Unanswered
       THEN unhandledRejection /\ companies' = companies
       ELSE /\ companies' = AddCompanyResult(name, website, hostname)
            /\ UNCHANGED <<running, req, fetches>>
    /\ UNCHANGED <<variant, boots, votes, votes_new, votes_old>>

\* UPDATE companies SET active = $2 WHERE id = $1 RETURNING *
SetActive(id, flag) ==
    [companies EXCEPT
       !.rows = {IF c.id = id THEN [c EXCEPT !.active = flag] ELSE c : c \in @}]

SetActiveOutcome(id, done) ==
    IF \E c \in companies.rows : c.id = id
    THEN Response(200, done)
    ELSE Response(404, "Company not found")

\* DELETE /api/admin/companies/:id
Deactivate(id) ==
    /\ running
    /\ companies' = SetActive(id, FALSE)
    /\ UNCHANGED <<variant, boots, votes, votes_new, votes_old, req, fetches,
                   running>>

DeactivateOutcome(id) == SetActiveOutcome(id, "Company deactivated successfully")

\* PATCH /api/admin/companies/:id/activate
Activate(id) ==
    /\ running
    /\ companies' = SetActive(id, TRUE)
    /\ UNCHANGED <<variant, boots, votes, votes_new, votes_old, req, fetches,
                   running>>

ActivateOutcome(id) == SetActiveOutcome(id, "Company reactivated successfully")

(***************************************************************************)
(* Read-only endpoints                                                     *)
(***************************************************************************)
\* GET /api/companies
PublicCompanies ==
    {[id |-> c.id, name |-> c.name] : c \in {x \in companies.rows : x.active}}

\* COUNT(v.id) of the LEFT JOIN, for one company
VoteCount(id) == Cardinality({v \in votes.rows : v.company_id = id})

\* the quotient truncated instead of rounded
PercentageTruncated(count, total) ==
    IF total = 0 THEN 0 ELSE (1000 * count) \div total

\* parseFloat(ROUND(count * 100.0 / NULLIF((SELECT COUNT(*) FROM votes), 0), 1)) || 0,
\* in tenths of a percent: ROUND rounds half away from zero, and the NULL of
\* a zero total becomes 0
Percentage(count, total) ==
    IF total = 0 THEN 0 ELSE (2000 * count + total) \div (2 * total)

LeaderboardRows ==
    {[id |-> c.id, name |-> c.name, votes |-> VoteCount(c.id),
      percentage |-> Percentage(VoteCount(c.id), Cardinality(votes.rows))] :
        c \in {x \in companies.rows : x.active}}

RECURSIVE SumOver(_, _)
\* rows.reduce((sum, item) => sum + item[field], 0)
SumOver(rows, field) ==
    IF rows = {} THEN 0
    ELSE LET x == CHOOSE y \in rows : TRUE
         IN  x[field] + SumOver(rows \ {x}, field)

\* GET /api/leaderboard: the query fails when a table it names is missing
Leaderboard ==
    IF companies.exists /\ votes.exists
    THEN [status |-> 200, leaderboard |-> LeaderboardRows,
          totalVotes |-> SumOver(LeaderboardRows, "votes")]
    ELSE [status |-> 500, leaderboard |-> {}, totalVotes |-> 0]

\* The collation of c.name is the one the database was created with, which
\* the code does not choose.  Every collation of the store is a strict total
\* order of texts: "C" is the order of the code points, a linguistic one
\* places the texts by its own weights, and texts it weighs alike are placed
\* by their bytes, which is the order of the code points.  A collation is
\* given here by the names it places by weight, in their order; the names it
\* does not list follow, in the order of the code points.
StoredNames == {Apple, Google, Acme, Apex}

\* the collation "C" lists no name
CodePointOrder == <<>>

\* the order ICU's en-US gives these names: letters are compared before
\* their case
EnUsOrder == <<Acme, Apex, Apple, Google>>

\* every order of the stored names, and the order of the code points
Collations ==
    {CodePointOrder} \cup
    {p \in [1..Cardinality(StoredNames) -> StoredNames] :
        \A i, j \in 1..Cardinality(StoredNames) : p[i] = p[j] => i = j}

\* the place the collation gives a name
Place(col, name) ==
    IF \E i \in 1..Len(col) : col[i] = name
    THEN CHOOSE i \in 1..Len(col) : col[i] = name
    ELSE Len(col) + 1

\* a < b by code points: the first differing one decides, and a proper
\* prefix comes first
RECURSIVE CodePointBefore(_, _)
CodePointBefore(a, b) ==
    IF b = <<>> THEN FALSE
    ELSE IF a = <<>> THEN TRUE
    ELSE IF Head(a) # Head(b) THEN Head(a) < Head(b)
    ELSE CodePointBefore(Tail(a), Tail(b))

\* a < b for two names
NameBefore(col, a, b) ==
    \/ Place(col, a) < Place(col, b)
    \/ /\ Place(col, a) = Place(col, b)
       /\ CodePointBefore(CodePoints(a), CodePoints(b))

\* ORDER BY vote_count DESC, c.name: x is placed before y
RowBefore(col, x, y) ==
    \/ x.votes > y.votes
    \/ x.votes = y.votes /\ NameBefore(col, x.name, y.name)

\* result.rows in the order of the ORDER BY
RECURSIVE OrderBy(_, _)
OrderBy(col, rows) ==
    IF rows = {} THEN <<>>
    ELSE LET first == CHOOSE x \in rows : \A y \in rows \ {x} : RowBefore(col, x, y)
         IN  <<first>> \o OrderBy(col, rows \ {first})

\* result.rows.map((row, index) => ({rank: index + 1, ...}))
RankRows(list) ==
    [i \in 1..Len(list) |->
        [rank |-> i, id |-> list[i].id, name |-> list[i].name,
         votes |-> list[i].votes, percentage |-> list[i].percentage]]

\* GET /api/leaderboard: the response with its rows in order
LeaderboardResponse(col) ==
    IF Leaderboard.status = 200
    THEN LET list == RankRows(OrderBy(col, LeaderboardRows))
         IN  [status |-> 200, leaderboard |-> list,
              totalVotes |-> SumOver({list[i] : i \in 1..Len(list)}, "votes")]
    ELSE [status |-> 500, leaderboard |-> <<>>, totalVotes |-> 0]

\* GET /api/admin/votes: votes JOIN companies
AdminVotes ==
    IF companies.exists /\ votes.exists
    THEN [status |-> 200,
          rows |-> {v \in votes.rows : \E c \in companies.rows : c.id = v.company_id}]
    ELSE [status |-> 500, rows |-> {}]

(***************************************************************************)
(* Specifications                                                          *)
(***************************************************************************)
\* the service after its start: one connection, all handlers
Next ==
    \/ StartServer(0)
    \/ \E b \in VoteBodies : VoteStart(1, b)
    \/ VoteLookup(1)
    \/ VoteInsert(1)
    \/ VoteRespond(1, FALSE)
    \/ \E n \in CompanyNames, s \in Sites : AddCompany(n, s.website, s.hostname)
    \/ \E id \in CompanyIds : Deactivate(id)
    \/ \E id \in CompanyIds : Activate(id)

Spec == Init /\ [][Next]_vars

\* two connections submitting votes at the same time
NextRace ==
    \/ StartServer(0)
    \/ \E r \in Slots, b \in RaceBodies : VoteStart(r, b)
    \/ \E r \in Slots : VoteLookup(r)
    \/ \E r \in Slots : VoteInsert(r)
    \/ \E r \in Slots : VoteRespond(r, FALSE)

SpecRace == Init /\ [][NextRace]_vars

\* up to three votes over the seeded companies
NextTally ==
    \/ StartServer(0)
    \/ \E b \in TallyBodies : VoteStart(1, b)
    \/ VoteLookup(1)
    \/ VoteInsert(1)
    \/ VoteRespond(1, FALSE)
    \/ \E s \in Sites : AddCompany(Acme, s.website, s.hostname)
    \/ \E id \in {1, 2} : Deactivate(id)
    \/ \E id \in {1, 2} : Activate(id)

SpecTally == Init /\ [][NextTally]_vars

\* the process restarted between requests
NextBoot ==
    \/ StartServer(MaxRestarts)
    \/ \E b \in BootBodies : VoteStart(1, b)
    \/ VoteLookup(1)
    \/ VoteInsert(1)
    \/ VoteRespond(1, FALSE)
    \/ \E n \in BootNames, s \in Sites : AddCompany(n, s.website, s.hostname)
    \/ \E id \in CompanyIds : Deactivate(id)
    \/ \E id \in CompanyIds : Activate(id)

SpecBoot == Init /\ [][NextBoot]_vars

\* votes with the webhook configured or not, and its requests settling
NextHook ==
    \/ StartServer(0)
    \/ \E b \in HookBodies : VoteStart(1, b)
    \/ VoteLookup(1)
    \/ VoteInsert(1)
    \/ \E configured \in BOOLEAN : VoteRespond(1, configured)
    \/ \E voteData \in fetches, outcome \in FetchOutcomes :
          FetchSettle(voteData, outcome)
    \/ \E n \in HookNames, s \in Sites : AddCompany(n, s.website, s.hostname)
    \/ \E id \in {1, 2} : Deactivate(id)

SpecHook == Init /\ [][NextHook]_vars

(***************************************************************************)
(* Vocabulary of the properties                                            *)
(***************************************************************************)
\* the response to a submission handled now, with no other query of the
\* store between the handler's own
SubmitOutcome(b) ==
    IF VoteStartOutcome(b) # Pending THEN VoteStartOutcome(b)
    ELSE IF VoteLookupOutcome(b) # Pending THEN VoteLookupOutcome(b)
    ELSE IF VoteArgsOutcome(b) # Pending THEN VoteArgsOutcome(b)
    ELSE VoteInsertOutcome(b)

\* an address lower-cased and stripped of surrounding white space
Normalized(email) == trim(toLowerCase(email))

Idle == \A r \in Slots : req[r].pc = "idle"

\* a submission with every field present that targets an active company
ValidTarget(b) ==
    /\ ~Falsy(b.voterName) /\ ~Falsy(b.voterPhone) /\ ~Falsy(b.voterEmail)
    /\ ActiveCompany(b.companyVote) # {}

DuplicateEmailResponses ==
    {Response(400, "This email address has already been used to vote"),
     Response(400, "This email has already voted")}
DuplicatePhoneResponse ==
    Response(400, "This phone number has already been used to vote")

\* a stored row holds the e-mail or the phone that the row about to be
\* inserted would be stored with
Conflicts(row) ==
    \E v \in votes.rows :
        \/ v.voter_email = StoredRow(row).voter_email
        \/ v.voter_phone = StoredRow(row).voter_phone

\* the canonical votes table exists with its uniqueness constraints
Migrated == votes.exists /\ votes.uniq

(***************************************************************************)
(* Properties                                                              *)
(***************************************************************************)
\* C1: of two submissions with the same e-mail (or phone), on a migrated
\* store, the one whose INSERT comes second is answered 400 and the other
\* 201, under every interleaving, and the table never holds two rows with the
\* same e-mail or phone.
C1_OneInsertWins ==
    Migrated =>
        /\ \A r \in Slots :
              req[r].pc = "insert" =>
                  VoteInsertOutcome(req[r]).status =
                      IF Conflicts(VoteRow(req[r])) THEN 400 ELSE 201
        /\ \A v, w \in votes.rows :
              (v.voter_email = w.voter_email \/ v.voter_phone = w.voter_phone)
                  => v = w

\* C2: a submission whose e-mail is a case or white-space variant of a
\* stored vote's e-mail is rejected with the 400 duplicate-email response.
C2_VariantIsDuplicateEmail ==
    \A b \in VoteBodies :
        (/\ boots >= 1
         /\ Idle
         /\ ValidTarget(b)
         /\ \E v \in votes.rows : Normalized(v.voter_email) = Normalized(b.voterEmail))
        => SubmitOutcome(b) \in DuplicateEmailResponses

\* C3: when the INSERT of the constraint-based handler fails with a
\* uniqueness violation, the 400 response names the column that conflicted:
\* the e-mail message for a stored e-mail, the phone message for a stored
\* phone with a fresh e-mail.
C3_ViolationNamesColumn ==
    \A r \in Slots :
        (/\ variant = "simple"
         /\ req[r].pc = "insert"
         /\ InsertVoteResult(votes, VoteRow(req[r])).code = "23505")
        => VoteInsertOutcome(req[r]) =
             IF \E v \in votes.rows : v.voter_email = VoteRow(req[r]).voter_email
             THEN Response(400, "This email address has already been used to vote")
             ELSE DuplicatePhoneResponse

\* C4: a vote row is inserted only for a company that is active at the
\* moment of the INSERT, and a submission for an unknown or deactivated
\* company inserts nothing.
C4_CompanyActiveAtInsert ==
    /\ \A r \in Slots :
          (req[r].pc = "insert" /\ VoteInsertOutcome(req[r]).status = 201)
              => ActiveCompany(req[r].companyVote) # {}
    /\ \A b \in VoteBodies :
          (Idle /\ boots >= 1 /\ ActiveCompany(b.companyVote) = {})
              => SubmitOutcome(b).status # 201

\* C5: a restart on a migrated store keeps the rows of the canonical votes
\* table in the canonical votes table.
C5_RestartKeepsVotes ==
    [][(boots >= 1 /\ boots' = boots + 1 /\ Migrated)
          => votes.rows \subseteq votes'.rows]_vars

\* C6: once initDB has run, from an empty or a legacy store, the tables
\* companies and votes exist and votes carries the uniqueness constraints.
C6_TablesExistAfterStartup ==
    boots >= 1 => companies.exists /\ Migrated

\* C7: the INSERT of a valid submission whose e-mail and phone no stored
\* vote holds adds exactly one row, is answered 201, and raises the
\* leaderboard's totalVotes by exactly 1.
C7_FreshVoteCountsOnce ==
    [][\A r \in Slots :
          (/\ req[r].pc = "insert"
           /\ req'[r].pc = "respond"
           /\ ~\E v \in votes.rows :
                  \/ Normalized(v.voter_email) = Normalized(req[r].voterEmail)
                  \/ trim(v.voter_phone) = trim(req[r].voterPhone))
          => /\ VoteInsertOutcome(req[r]).status = 201
             /\ VoteRespondOutcome(req'[r].res).status = 201
             /\ Cardinality(votes'.rows) = Cardinality(votes.rows) + 1
             /\ Leaderboard'.totalVotes = Leaderboard.totalVotes + 1]_vars

Abs(x) == IF x < 0 THEN -x ELSE x

\* the sum of the percentages the leaderboard returns, in tenths of a percent
PercentageSum == SumOver(Leaderboard.leaderboard, "percentage")

\* C8 (as claimed): the percentages the leaderboard returns sum to 100,
\* within the rounding of each row to one decimal, whenever it reports votes,
\* and are all 0 when it reports none.
C8_PercentagesSumTo100 ==
    IF Leaderboard.totalVotes > 0
    THEN 2 * Abs(PercentageSum - 1000) <= Cardinality(Leaderboard.leaderboard)
    ELSE \A row \in Leaderboard.leaderboard : row.percentage = 0

\* C8 (amended): the percentages the leaderboard returns sum, within the
\* rounding of each row to one decimal, to 100 times the share of the stored
\* votes that belong to the listed (active) companies, which is 100 when no
\* stored vote belongs to a deactivated company; they are all 0 when no vote
\* is stored.
C8_PercentagesSumToActiveShare ==
    LET all == Cardinality(votes.rows)
    IN  IF all > 0
        THEN 2 * Abs(PercentageSum * all - 1000 * Leaderboard.totalVotes)
                 <= Cardinality(Leaderboard.leaderboard) * all
        ELSE \A row \in Leaderboard.leaderboard : row.percentage = 0

\* three votes stored, two of them for the one listed company (66.7), the
\* third for a deactivated one
C8_Witness ==
    /\ Leaderboard.status = 200
    /\ Cardinality(votes.rows) = 3
    /\ \E row \in Leaderboard.leaderboard : row.percentage = 667
    /\ \E c \in companies.rows : ~c.active /\ VoteCount(c.id) = 1

\* what a step on company id leaves alone: every table of votes, every other
\* company, and the company's own id and name
FrameOf(id) ==
    /\ votes' = votes /\ votes_new' = votes_new /\ votes_old' = votes_old
    /\ {c \in companies'.rows : c.id # id} = {c \in companies.rows : c.id # id}
    /\ {[id |-> c.id, name |-> c.name] : c \in companies'.rows}
         = {[id |-> c.id, name |-> c.name] : c \in companies.rows}
    /\ companies'.seq = companies.seq

\* the listings after a DELETE of company id
Delisted(id) ==
    /\ id \notin {c.id : c \in PublicCompanies'}
    /\ id \notin {row.id : row \in Leaderboard'.leaderboard}
    /\ \A v \in votes.rows : v.company_id = id => v \in AdminVotes'.rows

\* C9: DELETE /api/admin/companies/:id and PATCH .../activate change only the
\* active flag of the company addressed.  After the DELETE the company is in
\* neither GET /api/companies nor the leaderboard, and its votes are still in
\* GET /api/admin/votes; after the PATCH it is in GET /api/companies and in
\* the leaderboard, with the vote count of its stored votes.
C9_OnlyActiveFlagChanges ==
    [][\A id \in CompanyIds :
          (\E c \in companies.rows : c.id = id) =>
              /\ Deactivate(id) => FrameOf(id) /\ Delisted(id)
              /\ Activate(id) =>
                    /\ FrameOf(id)
                    /\ id \in {c.id : c \in PublicCompanies'}
                    /\ \E row \in Leaderboard'.leaderboard :
                          row.id = id /\ row.votes = VoteCount(id)
                    /\ \A v \in votes.rows :
                          v.company_id = id => v \in AdminVotes'.rows]_vars

\* the same, on a store where the leaderboard query is answered
LeaderboardAnswersC9 ==
    [][\A id \in CompanyIds :
          ((\E c \in companies.rows : c.id = id) /\ Leaderboard.status = 200) =>
              /\ Deactivate(id) => FrameOf(id) /\ Delisted(id)
              /\ Activate(id) =>
                    /\ FrameOf(id)
                    /\ id \in {c.id : c \in PublicCompanies'}
                    /\ \E row \in Leaderboard'.leaderboard :
                          row.id = id /\ row.votes = VoteCount(id)
                    /\ \A v \in votes.rows :
                          v.company_id = id => v \in AdminVotes'.rows]_vars

\* C10: no two companies share a name, whatever their active flags; a
\* request to add a company whose trimmed name is empty, or is the name of an
\* existing company, is answered 400 and leaves the rows as they are; another
\* run of initDB leaves one row for each seeded name.
C10_CompanyNamesUnique ==
    /\ \A c, d \in companies.rows : c.name = d.name => c = d
    /\ \A n \in CompanyNames, s \in Sites :
          boots >= 1 =>
              /\ trim(n) = <<>> =>
                    /\ AddCompanyOutcome(n, s.website, s.hostname).status = 400
                    /\ AddCompanyResult(n, s.website, s.hostname) = companies
              /\ (\E c \in companies.rows : c.name = trim(n)) =>
                    /\ AddCompanyOutcome(n, s.website, s.hostname).status = 400
                    /\ AddCompanyResult(n, s.website, s.hostname).rows = companies.rows
    /\ \A name \in {Apple, Google} :
          Cardinality({c \in SeedDefaults(CreateCompanies(companies)).rows :
                          c.name = name}) = 1

\* the same, where the request with an existing name is answered 500 when
\* its website is not a string, or the website or the logo URL made from it
\* does not fit its column
NamesUniqueC10 ==
    /\ \A c, d \in companies.rows : c.name = d.name => c = d
    /\ \A n \in CompanyNames, s \in Sites :
          boots >= 1 =>
              /\ trim(n) = <<>> =>
                    /\ AddCompanyOutcome(n, s.website, s.hostname).status = 400
                    /\ AddCompanyResult(n, s.website, s.hostname) = companies
              /\ (\E c \in companies.rows : c.name = trim(n)) =>
                    /\ AddCompanyOutcome(n, s.website, s.hostname).status =
                          IF \/ WebsiteThrows(s.website)
                             \/ ~Fits(WebsiteArg(s.website), WebsiteWidth)
                             \/ ~Fits(LogoArg(s.website, s.hostname), LogoWidth)
                          THEN 500 ELSE 400
                    /\ AddCompanyResult(n, s.website, s.hostname).rows = companies.rows
    /\ \A name \in {Apple, Google} :
          Cardinality({c \in SeedDefaults(CreateCompanies(companies)).rows :
                          c.name = name}) = 1

\* after a restart, an added company and a seeded one, both deactivated
DeactivatedNamesKept ==
    /\ boots >= 2
    /\ \E c \in companies.rows : ~c.active /\ c.name = Acme
    /\ \E c \in companies.rows : ~c.active /\ c.name = Apple

\* the ordered leaderboard lists exactly the active companies, by vote count
\* descending and then by name in the order of the store's collation, ranked
\* 1, 2, ... with its total the sum of the listed counts
RankedActiveCompanies(col) ==
    LET L == LeaderboardResponse(col).leaderboard
    IN  /\ {[id |-> L[i].id, name |-> L[i].name] : i \in 1..Len(L)}
             = PublicCompanies
        /\ Len(L) = Cardinality(PublicCompanies)
        /\ \A i \in 1..Len(L) : L[i].rank = i /\ L[i].votes = VoteCount(L[i].id)
        /\ \A i, j \in 1..Len(L) :
              i < j => \/ L[i].votes > L[j].votes
                       \/ /\ L[i].votes = L[j].votes
                          /\ NameBefore(col, L[i].name, L[j].name)
        /\ LeaderboardResponse(col).totalVotes
             = SumOver({L[i] : i \in 1..Len(L)}, "votes")

\* C11: once the server is started, the rows of GET /api/leaderboard are
\* exactly the active companies, ordered by vote count descending with ties
\* broken alphabetically by name, row i has rank i, and totalVotes is the sum
\* of the listed vote counts.
C11_RankedActiveCompanies ==
    \A col \in Collations : boots >= 1 => RankedActiveCompanies(col)

\* the same, on a store where the leaderboard query is answered
LeaderboardAnswersC11 ==
    \A col \in Collations :
        (boots >= 1 /\ Leaderboard.status = 200) => RankedActiveCompanies(col)

\* a tie that the names decide against the ids, below a company with a vote
TieBrokenByName ==
    \A col \in {CodePointOrder, EnUsOrder} :
        LET L == LeaderboardResponse(col).leaderboard
        IN  /\ Len(L) = 3
            /\ L[1].votes = 1 /\ L[2].votes = 0 /\ L[3].votes = 0
            /\ L[2].id > L[3].id

\* the collations order the listed companies differently
CollationsDiffer ==
    LeaderboardResponse(CodePointOrder) # LeaderboardResponse(EnUsOrder)

\* a webhook request is started only by the step that answers 201 for a
\* vote whose row is stored, one per step; settling it, whatever its outcome,
\* leaves the store and the requests in flight as they are
WebhookFollowsInsert ==
    /\ \A d \in fetches' \ fetches :
          /\ fetches' \ fetches = {d}
          /\ \E r \in Slots :
                /\ req[r].pc = "respond" /\ req'[r].pc = "idle"
                /\ VoteRespondOutcome(req[r].res).status = 201
                /\ d = VoteData(req[r])
                /\ StoredRow(VoteRow(req[r])) \in votes.rows
    /\ (running' /\ fetches' # fetches /\ fetches' \subseteq fetches) =>
          /\ votes' = votes /\ companies' = companies /\ req' = req
          /\ votes_new' = votes_new /\ votes_old' = votes_old

\* every submission that can arrive is answered, and no request in flight
\* is dropped
EverySubmissionAnswered ==
    /\ \A b \in HookBodies : running => VoteStartOutcome(b) # Unanswered
    /\ (running /\ ~running') => \A r \in Slots : req[r].pc = "idle"

\* C12: the webhook is called only after the vote row is stored, once per
\* accepted vote and never for a rejected submission; its outcome changes
\* neither the 201 response nor the stored row; and every vote submission is
\* answered.
C12_WebhookNeverAffectsVote ==
    [][WebhookFollowsInsert /\ EverySubmissionAnswered]_vars

\* the webhook clauses alone
WebhookClausesC12 == [][WebhookFollowsInsert]_vars

\* a webhook request in flight for a stored vote
FetchInFlight ==
    \E d \in fetches : \E v \in votes.rows : v.voter_email = d.voterEmail

====
